---- MODULE Spec2Model ----
(***************************************************************************)
(* Model of the arm-dcc crate (src/src/lib.rs) and of the panic-dcc crate  *)
(* (src/panic/src/lib.rs).                                                 *)
(*                                                                         *)
(* The Debug Communication Channel is a status register (DSCR, bit 29 =    *)
(* "previous word not yet drained") and a data register (DTR).  The device *)
(* side is one execution context whose call stack is `stack`; the host is  *)
(* a second process that drains the data register.                         *)
(*                                                                         *)
(* A `str` is modelled as the sequence of its UTF-8 bytes, which is what   *)
(* it is in memory: `as_bytes` reinterprets, it converts nothing.          *)
(***************************************************************************)
EXTENDS Integers, Sequences, FiniteSets, TLC

VARIABLES
    cfg,        \* build configuration: [target_arm, nop, inline_asm]
    DSCR,       \* status register, read by MRC p14, 0, r, c0, c1, 0
    DTR,        \* data register, written by MCR p14, 0, word, c0, c5, 0
    host,       \* words the host has drained, in order
    stack,      \* call stack of the device, innermost frame last
    bytes,      \* write_all: the part of the slice not yet iterated
    word,       \* write: the argument
    r,          \* write: the local r (Uninit until the first MRC)
    wpc,        \* write: next instruction, "mrc" or "mcr"
    info,       \* panic: the PanicInfo
    step,       \* panic: source line of the next statement
    depth,      \* number of entries into the panic handler
    calls,      \* number of calls main has made
    requested,  \* history: words main asked to be written, in order
    out,        \* history: words the running panic handler handed to write
    pending     \* history: words written to DTR and not yet drained

vars == <<cfg, DSCR, DTR, host, stack, bytes, word, r, wpc, info, step,
          depth, calls, requested, out, pending>>

----------------------------------------------------------------------------
(* Bounds of the model *)

MaxLen == 2      \* longest slice main passes to write_all
MaxCalls == 1    \* calls main makes before it idles or panics
MaxDepth == 2    \* entries into the panic handler that are followed

(* Program constants *)

W == 536870912          \* const W: u32 = 1 << 29
BigWord == 2147483647   \* a word above 255: 2^31 - 1
Uninit == -1            \* `let mut r: u32;` before the first MRC

----------------------------------------------------------------------------
(* Pure helpers *)

RECURSIVE BitAnd(_, _)
BitAnd(a, b) ==
    IF a = 0 \/ b = 0 THEN 0
    ELSE (a % 2) * (b % 2) + 2 * BitAnd(a \div 2, b \div 2)

RECURSIVE BitOr(_, _)
BitOr(a, b) ==
    IF a = 0 THEN b
    ELSE IF b = 0 THEN a
    ELSE (IF a % 2 = 1 \/ b % 2 = 1 THEN 1 ELSE 0)
         + 2 * BitOr(a \div 2, b \div 2)

Last(s) == s[Len(s)]
Top == Last(stack)
Pop(s) == SubSeq(s, 1, Len(s) - 1)
IsPrefix(s, t) == Len(s) <= Len(t) /\ s = SubSeq(t, 1, Len(s))

(* The #[cfg(...)] attribute on each arm of `match ()` in write *)
Arms == {"unimplemented", "nop", "inline_asm", "ffi"}
ArmActive(a, c) ==
    CASE a = "unimplemented" -> ~c.target_arm
      [] a = "nop" -> c.target_arm /\ c.nop
      [] a = "inline_asm" -> c.target_arm /\ ~c.nop /\ c.inline_asm
      [] a = "ffi" -> c.target_arm /\ ~c.nop /\ ~c.inline_asm
ActiveArms(c) == {a \in Arms : ArmActive(a, c)}

(* An order of the arms in which inline-asm has precedence over nop *)
BackendInlineFirst(c) ==
    IF ~c.target_arm THEN "unimplemented"
    ELSE IF c.inline_asm THEN "inline_asm"
    ELSE IF c.nop THEN "nop"
    ELSE "ffi"

(* The arm of `match ()` in write that the cfg attributes leave in the build *)
Backend(c) ==
    IF ~c.target_arm THEN "unimplemented"
    ELSE IF c.nop THEN "nop"
    ELSE IF c.inline_asm THEN "inline_asm"
    ELSE "ffi"

(* The test of the loop, inverted *)
FlagSet(x) == BitAnd(x, W) # 0

(* A loop that tests bit 28, which the hardware never sets *)
FlagClearBit28(x) == BitAnd(x, 268435456) = 0

(* r & W == 0 *)
FlagClear(x) == BitAnd(x, W) = 0

(* A sign extension: a byte of 128 or more comes out with bits 8 and up set *)
U32FromSignExtended(byte) ==
    IF byte >= 128 THEN (BigWord - 255) + byte ELSE byte

(* u32::from of a byte: zero extension, bits 8..31 are clear *)
U32From(byte) == BitAnd(byte, 255)

(* Hardware: bit 29 of the status register is set while a word written to *)
(* the data register has not been read by the host                        *)
TXfullBit == 536870912
TXfull == (DSCR \div TXfullBit) % 2 = 1

(* <u32 as uDisplay>::fmt: the decimal digits of n, most significant first, *)
(* produced from the least significant end by n % 10 and n / 10            *)
RECURSIVE Decimal(_)
Decimal(n) ==
    IF n \div 10 = 0 THEN <<48 + (n % 10)>>
    ELSE Append(Decimal(n \div 10), 48 + (n % 10))

----------------------------------------------------------------------------
(* String literals of the panic handler, as UTF-8 bytes *)

PANICKED_AT == <<112, 97, 110, 105, 99, 107, 101, 100, 32, 97, 116, 32, 39>>
DynAnyLower == <<100, 121, 110, 32, 97, 110, 121>>  \* "dyn any"
DYN_ANY == <<100, 121, 110, 32, 65, 110, 121>>      \* "dyn Any"
QUOTE == <<39>>                                     \* "'"
COMMA_SPACE == <<44, 32>>                           \* ", "
COLON == <<58>>                                     \* ":"
NEWLINE == <<10>>                                   \* "\n"

(* Inputs *)

Oops == <<79, 111, 112, 115>>                                   \* "Oops"
HelloRs == <<115, 114, 99, 47, 104, 101, 108, 108, 111, 46, 114, 115>>
MRs == <<109, 46, 114, 115>>                                    \* "m.rs"
EAcute == <<195, 169>>                                          \* "é"

(* The slices main passes to write_all: the prefixes, the empty one       *)
(* included, of 65, 200, 65, 200, ...                                     *)
Slices == {[k \in 1..n |-> IF k % 2 = 1 THEN 65 ELSE 200] : n \in 0..MaxLen}
Strs == {EAcute}
Words == {BigWord}

(* The payload of a PanicInfo is a `dyn Any`: a literal message (&str), an *)
(* owned formatted message (String) or a value of any other type           *)
Payloads ==
    { [kind |-> "str", text |-> Oops],
      [kind |-> "String", text |-> Oops],
      [kind |-> "other", text |-> <<>>] }

NoLocation == [some |-> FALSE, file |-> <<>>, line |-> 0, column |-> 0]
Locations ==
    { NoLocation,
      [some |-> TRUE, file |-> HelloRs, line |-> 4, column |-> 4],
      [some |-> TRUE, file |-> MRs, line |-> 120, column |-> BigWord] }

Infos == [payload : Payloads, location : Locations]
NoInfo == [payload |-> [kind |-> "none", text |-> <<>>], location |-> NoLocation]

(* The PanicInfo of `unimplemented!()` in write *)
UnimplementedInfo ==
    [payload |-> [kind |-> "other", text |-> <<>>],
     location |-> [some |-> TRUE, file |-> MRs, line |-> 120, column |-> 15]]

----------------------------------------------------------------------------
(* The panic handler, statement by statement (labels are source lines) *)

HALT == 107

(* A downcast that also succeeds for an owned String *)
DowncastText(p) == p.kind \in {"str", "String"}

(* info.payload().downcast_ref::<&str>() is Some *)
DowncastStr(p) == p.kind = "str"

(* A handler that prints the column where the line belongs *)
FragmentColumnFirst(i, line) ==
    CASE line = 86 -> PANICKED_AT
      [] line = 88 -> IF DowncastStr(i.payload) THEN i.payload.text ELSE DYN_ANY
      [] line = 94 -> QUOTE
      [] line = 97 -> COMMA_SPACE
      [] line = 98 -> i.location.file
      [] line = 99 -> COLON
      [] line = 100 -> Decimal(i.location.column)
      [] line = 101 -> COLON
      [] line = 102 -> Decimal(i.location.line)
      [] line = 105 -> NEWLINE

(* The string the statement at `line` passes to the formatter *)
Fragment(i, line) ==
    CASE line = 86 -> PANICKED_AT
      [] line = 88 -> IF DowncastStr(i.payload) THEN i.payload.text ELSE DYN_ANY
      [] line = 94 -> QUOTE
      [] line = 97 -> COMMA_SPACE
      [] line = 98 -> i.location.file
      [] line = 99 -> COLON
      [] line = 100 -> Decimal(i.location.line)
      [] line = 101 -> COLON
      [] line = 102 -> Decimal(i.location.column)
      [] line = 105 -> NEWLINE

(* A handler that does not test info.location() *)
NextStmtAlwaysLocation(i, line) ==
    CASE line = 83 -> 86
      [] line = 86 -> 88
      [] line = 88 -> 94
      [] line = 94 -> 97
      [] line = 97 -> 98
      [] line = 98 -> 99
      [] line = 99 -> 100
      [] line = 100 -> 101
      [] line = 101 -> 102
      [] line = 102 -> 105
      [] line = 105 -> HALT

(* The statement that follows the one at `line` *)
NextStmt(i, line) ==
    CASE line = 83 -> 86
      [] line = 86 -> 88
      [] line = 88 -> 94
      [] line = 94 -> IF i.location.some THEN 97 ELSE 105
      [] line = 97 -> 98
      [] line = 98 -> 99
      [] line = 99 -> 100
      [] line = 100 -> 101
      [] line = 101 -> 102
      [] line = 102 -> 105
      [] line = 105 -> HALT

InPanic == \E k \in 1..Len(stack) : stack[k] = "panic"

(* FaultReporter states of the design *)
Phase ==
    IF ~InPanic THEN "Running"
    ELSE IF step = 83 THEN "Capturing"
    ELSE IF step = HALT /\ Top = "panic" THEN "Halting"
    ELSE "Rendering"

----------------------------------------------------------------------------
Init ==
    /\ cfg \in [target_arm : BOOLEAN, nop : BOOLEAN, inline_asm : BOOLEAN]
    /\ DSCR = 0
    /\ DTR = 0
    /\ host = <<>>
    /\ stack = <<"main">>
    /\ bytes = <<>>
    /\ word = 0
    /\ r = Uninit
    /\ wpc = "none"
    /\ info = NoInfo
    /\ step = 0
    /\ depth = 0
    /\ calls = 0
    /\ requested = <<>>
    /\ out = <<>>
    /\ pending = <<>>

(* main calls write(w) *)
MainWrite(w) ==
    /\ stack = <<"main">>
    /\ calls < MaxCalls
    /\ stack' = <<"main", "write">>
    /\ word' = w
    /\ r' = Uninit
    /\ wpc' = "mrc"
    /\ calls' = calls + 1
    /\ requested' = Append(requested, w)
    /\ UNCHANGED <<cfg, DSCR, DTR, host, bytes, info, step, depth, out, pending>>

(* main calls write_all(b) *)
MainWriteAll(b) ==
    /\ stack = <<"main">>
    /\ calls < MaxCalls
    /\ stack' = <<"main", "write_all">>
    /\ bytes' = b
    /\ calls' = calls + 1
    /\ requested' = requested \o b
    /\ UNCHANGED <<cfg, DSCR, DTR, host, word, r, wpc, info, step, depth, out,
                   pending>>

(* main calls write_str(s), which is write_all(s.as_bytes()) *)
MainWriteStr(s) ==
    /\ stack = <<"main">>
    /\ calls < MaxCalls
    /\ stack' = <<"main", "write_all">>
    /\ bytes' = s
    /\ calls' = calls + 1
    /\ requested' = requested \o s
    /\ UNCHANGED <<cfg, DSCR, DTR, host, word, r, wpc, info, step, depth, out,
                   pending>>

(* main panics: the runtime enters the #[panic_handler] *)
MainPanic(i) ==
    /\ stack = <<"main">>
    /\ depth < MaxDepth
    /\ stack' = <<"main", "panic">>
    /\ info' = i
    /\ step' = 83
    /\ depth' = depth + 1
    /\ out' = <<>>
    /\ UNCHANGED <<cfg, DSCR, DTR, host, bytes, word, r, wpc, calls, requested,
                   pending>>

(* write_all that iterates the slice from its end *)
WriteAllNextRev ==
    /\ Top = "write_all"
    /\ IF bytes = <<>>
       THEN /\ stack' = Pop(stack)
            /\ UNCHANGED <<bytes, word, r, wpc, out>>
       ELSE /\ stack' = Append(stack, "write")
            /\ word' = U32From(Last(bytes))
            /\ bytes' = Pop(bytes)
            /\ r' = Uninit
            /\ wpc' = "mrc"
            /\ out' = IF InPanic THEN Append(out, U32From(Last(bytes))) ELSE out
    /\ UNCHANGED <<cfg, DSCR, DTR, host, info, step, depth, calls, requested,
                   pending>>

(* write_all: one turn of bytes.iter().for_each(|byte| write(u32::from(byte))) *)
WriteAllNext ==
    /\ Top = "write_all"
    /\ IF bytes = <<>>
       THEN /\ stack' = Pop(stack)
            /\ UNCHANGED <<bytes, word, r, wpc, out>>
       ELSE /\ stack' = Append(stack, "write")
            /\ word' = U32From(Head(bytes))
            /\ bytes' = Tail(bytes)
            /\ r' = Uninit
            /\ wpc' = "mrc"
            /\ out' = IF InPanic THEN Append(out, U32From(Head(bytes))) ELSE out
    /\ UNCHANGED <<cfg, DSCR, DTR, host, info, step, depth, calls, requested,
                   pending>>

(* write, #[cfg(not(target_arch = "arm"))]: unimplemented!() panics *)
WriteUnimplemented ==
    /\ Top = "write"
    /\ Backend(cfg) = "unimplemented"
    /\ depth < MaxDepth
    /\ stack' = Append(stack, "panic")
    /\ info' = UnimplementedInfo
    /\ step' = 83
    /\ depth' = depth + 1
    /\ out' = <<>>
    /\ UNCHANGED <<cfg, DSCR, DTR, host, bytes, word, r, wpc, calls, requested,
                   pending>>

(* A nop arm that still issues the MCR *)
WriteNopWrites ==
    /\ Top = "write"
    /\ Backend(cfg) = "nop"
    /\ DTR' = word
    /\ DSCR' = BitOr(DSCR, TXfullBit)
    /\ pending' = Append(pending, word)
    /\ stack' = Pop(stack)
    /\ wpc' = "none"
    /\ UNCHANGED <<cfg, host, bytes, word, r, info, step, depth, calls,
                   requested, out>>

(* write, feature "nop": () => {} *)
WriteNop ==
    /\ Top = "write"
    /\ Backend(cfg) = "nop"
    /\ stack' = Pop(stack)
    /\ wpc' = "none"
    /\ UNCHANGED <<cfg, DSCR, DTR, host, bytes, word, r, info, step, depth,
                   calls, requested, out, pending>>

(* write that reads the status once and does not loop *)
WriteMrcOnce ==
    /\ Top = "write"
    /\ Backend(cfg) = "inline_asm"
    /\ wpc = "mrc"
    /\ r' = DSCR
    /\ wpc' = "mcr"
    /\ UNCHANGED <<cfg, DSCR, DTR, host, stack, bytes, word, info, step, depth,
                   calls, requested, out, pending>>

(* A loop that gives up and returns when it reads the flag set *)
WriteMrcTimeout ==
    /\ Top = "write"
    /\ Backend(cfg) = "inline_asm"
    /\ wpc = "mrc"
    /\ r' = DSCR
    /\ IF FlagClear(DSCR)
       THEN wpc' = "mcr" /\ stack' = stack
       ELSE wpc' = "none" /\ stack' = Pop(stack)
    /\ UNCHANGED <<cfg, DSCR, DTR, host, bytes, word, info, step, depth,
                   calls, requested, out, pending>>

(* write, feature "inline-asm": one turn of the busy-wait loop *)
WriteMrc ==
    /\ Top = "write"
    /\ Backend(cfg) = "inline_asm"
    /\ wpc = "mrc"
    /\ r' = DSCR
    /\ wpc' = IF FlagClear(DSCR) THEN "mcr" ELSE "mrc"
    /\ UNCHANGED <<cfg, DSCR, DTR, host, stack, bytes, word, info, step, depth,
                   calls, requested, out, pending>>

(* An MCR whose operand is the status just read instead of the word *)
WriteMcrStatus ==
    /\ Top = "write"
    /\ Backend(cfg) = "inline_asm"
    /\ wpc = "mcr"
    /\ DTR' = r
    /\ DSCR' = BitOr(DSCR, TXfullBit)
    /\ pending' = Append(pending, r)
    /\ stack' = Pop(stack)
    /\ wpc' = "none"
    /\ UNCHANGED <<cfg, host, bytes, word, r, info, step, depth, calls,
                   requested, out>>

(* A write that fails between leaving its loop and the MCR *)
WriteMcrPanics ==
    /\ Top = "write"
    /\ Backend(cfg) = "inline_asm"
    /\ wpc = "mcr"
    /\ depth < MaxDepth
    /\ stack' = Append(stack, "panic")
    /\ info' = UnimplementedInfo
    /\ step' = 83
    /\ depth' = depth + 1
    /\ out' = <<>>
    /\ UNCHANGED <<cfg, DSCR, DTR, host, bytes, word, r, wpc, calls, requested,
                   pending>>

(* A write that leaves its loop and returns without the MCR *)
WriteMcrDrop ==
    /\ Top = "write"
    /\ Backend(cfg) = "inline_asm"
    /\ wpc = "mcr"
    /\ stack' = Pop(stack)
    /\ wpc' = "none"
    /\ UNCHANGED <<cfg, DSCR, DTR, host, bytes, word, r, info, step, depth,
                   calls, requested, out, pending>>

(* write, feature "inline-asm": the MCR after the loop, then return *)
WriteMcr ==
    /\ Top = "write"
    /\ Backend(cfg) = "inline_asm"
    /\ wpc = "mcr"
    /\ DTR' = word
    /\ DSCR' = BitOr(DSCR, TXfullBit)
    /\ pending' = Append(pending, word)
    /\ stack' = Pop(stack)
    /\ wpc' = "none"
    /\ UNCHANGED <<cfg, host, bytes, word, r, info, step, depth, calls,
                   requested, out>>

(* __dcc_write, the external routine: the same loop *)
DccWriteMrc ==
    /\ Top = "write"
    /\ Backend(cfg) = "ffi"
    /\ wpc = "mrc"
    /\ r' = DSCR
    /\ wpc' = IF BitAnd(DSCR, TXfullBit) = 0 THEN "mcr" ELSE "mrc"
    /\ UNCHANGED <<cfg, DSCR, DTR, host, stack, bytes, word, info, step, depth,
                   calls, requested, out, pending>>

(* __dcc_write, the external routine: the MCR and the return *)
DccWriteMcr ==
    /\ Top = "write"
    /\ Backend(cfg) = "ffi"
    /\ wpc = "mcr"
    /\ DTR' = word
    /\ DSCR' = BitOr(DSCR, TXfullBit)
    /\ pending' = Append(pending, word)
    /\ stack' = Pop(stack)
    /\ wpc' = "none"
    /\ UNCHANGED <<cfg, host, bytes, word, r, info, step, depth, calls,
                   requested, out>>

(* panic: let mut writer = Writer; let mut f = Formatter::new(&mut writer); *)
PanicCapture ==
    /\ Top = "panic"
    /\ step = 83
    /\ step' = NextStmt(info, step)
    /\ UNCHANGED <<cfg, DSCR, DTR, host, stack, bytes, word, r, wpc, info,
                   depth, calls, requested, out, pending>>

(* panic: one statement that writes a string through the formatter; the    *)
(* formatter hands it to Writer::write_str, that is to write_all           *)
PanicRender ==
    /\ Top = "panic"
    /\ step \notin {83, HALT}
    /\ stack' = Append(stack, "write_all")
    /\ bytes' = Fragment(info, step)
    /\ step' = NextStmt(info, step)
    /\ UNCHANGED <<cfg, DSCR, DTR, host, word, r, wpc, info, depth, calls,
                   requested, out, pending>>

(* A handler that returns instead of looping *)
PanicHaltReturns ==
    /\ Top = "panic"
    /\ step = HALT
    /\ stack' = Pop(stack)
    /\ UNCHANGED <<cfg, DSCR, DTR, host, bytes, word, r, wpc, info, step,
                   depth, calls, requested, out, pending>>

(* panic: one turn of the final `loop {}` *)
PanicHalt ==
    /\ Top = "panic"
    /\ step = HALT
    /\ UNCHANGED vars

(* The host reads the data register, which clears the flag *)
HostDrain ==
    /\ TXfull
    /\ host' = Append(host, DTR)
    /\ DSCR' = DSCR - TXfullBit
    /\ pending' = <<>>
    /\ UNCHANGED <<cfg, DTR, stack, bytes, word, r, wpc, info, step, depth,
                   calls, requested, out>>

(* The instructions the device executes once main has made a call *)
Exec ==
    \/ WriteAllNext
    \/ WriteUnimplemented
    \/ WriteNop
    \/ WriteMrc
    \/ WriteMcr
    \/ DccWriteMrc
    \/ DccWriteMcr
    \/ PanicCapture
    \/ PanicRender
    \/ PanicHalt

Next ==
    \/ \E w \in Words : MainWrite(w)
    \/ \E b \in Slices : MainWriteAll(b)
    \/ \E s \in Strs : MainWriteStr(s)
    \/ \E i \in Infos : MainPanic(i)
    \/ Exec
    \/ HostDrain

Spec == Init /\ [][Next]_vars

(* The device keeps executing; nothing is assumed of the host *)
SpecDevice == Spec /\ WF_vars(Exec)

(* The device keeps executing and the host drains every word *)
SpecDrained == Spec /\ WF_vars(Exec) /\ WF_vars(HostDrain)

TypeOK ==
    /\ DSCR \in {0, TXfullBit}
    /\ DTR \in 0..BigWord
    /\ wpc \in {"none", "mrc", "mcr"}
    /\ depth \in 0..MaxDepth

----------------------------------------------------------------------------
(* Vocabulary of the properties, in terms of the build features *)

Direct == cfg.target_arm /\ ~cfg.nop /\ cfg.inline_asm
Disabled == cfg.target_arm /\ cfg.nop
Returned == stack = <<"main">>

(* C1 as stated: once every call main made has returned and the channel   *)
(* is drained, the host has observed exactly the words main asked for, in *)
(* order, whatever backend the build selected                             *)
C1_DeliveredAnyBackend ==
    (Returned /\ ~TXfull) => host = requested

(* C1 amended: the same, unless the build selected the disabled (nop)     *)
(* backend, which discards every word                                     *)
C1_Delivered ==
    (~Disabled /\ Returned /\ ~TXfull) => host = requested

C1_Witness ==
    /\ Direct
    /\ Returned
    /\ ~TXfull
    /\ Len(requested) >= 2
    /\ host = requested

(* C2: under the direct strategy the data register is written only while  *)
(* the flag is clear, and only by a call whose last instruction was a     *)
(* status read that saw bit 29 clear                                      *)
C2_WriteOnlyAfterFree ==
    [][(Direct /\ Len(pending') > Len(pending))
         => /\ ~TXfull
            /\ r # Uninit
            /\ (r \div TXfullBit) % 2 = 0
            /\ wpc = "mcr"]_vars

C2_Witness ==
    /\ Direct
    /\ Top = "write"
    /\ wpc = "mrc"
    /\ r # Uninit
    /\ (r \div TXfullBit) % 2 = 1
    /\ Len(host) >= 1

(* C3: at most one word is in flight, and it is the word the data         *)
(* register holds: no write lands on a word the host has not drained      *)
C3_OneInFlight ==
    /\ Len(pending) <= 1
    /\ TXfull <=> pending # <<>>
    /\ TXfull => pending = <<DTR>>

C3_Witness ==
    /\ Top = "write"
    /\ wpc = "mrc"
    /\ TXfull
    /\ pending = <<DTR>>
    /\ word # DTR

----------------------------------------------------------------------------
(* The report the properties expect, written out independently of the     *)
(* handler: decimal numerals by position, most significant digit first    *)

RECURSIVE Pow10(_)
Pow10(k) == IF k = 0 THEN 1 ELSE 10 * Pow10(k - 1)

NumDigits(n) ==
    IF n >= 1000000000 THEN 10
    ELSE CHOOSE k \in 1..9 : n < Pow10(k) /\ (k = 1 \/ n >= Pow10(k - 1))

Numeral(n) ==
    [j \in 1..NumDigits(n) |-> 48 + ((n \div Pow10(NumDigits(n) - j)) % 10)]

(* "panicked at '" + P + "'" *)
Quoted(P) ==
    <<112, 97, 110, 105, 99, 107, 101, 100, 32, 97, 116, 32, 39>> \o P \o <<39>>

(* ", " + F + ":" + decimal(L) + ":" + decimal(C) *)
LocationSegment(l) ==
    <<44, 32>> \o l.file \o <<58>> \o Numeral(l.line) \o <<58>>
        \o Numeral(l.column)

DynAnyText == <<100, 121, 110, 32, 65, 110, 121>>

(* panicked at 'Oops', src/hello.rs:4:4\n *)
HelloReport ==
    <<112, 97, 110, 105, 99, 107, 101, 100, 32, 97, 116, 32, 39,
      79, 111, 112, 115, 39, 44, 32,
      115, 114, 99, 47, 104, 101, 108, 108, 111, 46, 114, 115,
      58, 52, 58, 52, 10>>

(* panicked at 'Oops'\n *)
OopsReport ==
    <<112, 97, 110, 105, 99, 107, 101, 100, 32, 97, 116, 32, 39,
      79, 111, 112, 115, 39, 10>>

(* panicked at 'dyn Any'\n *)
DynAnyReport ==
    <<112, 97, 110, 105, 99, 107, 101, 100, 32, 97, 116, 32, 39,
      100, 121, 110, 32, 65, 110, 121, 39, 10>>

HelloLocation == [some |-> TRUE, file |-> HelloRs, line |-> 4, column |-> 4]
Halting == Phase = "Halting"
Handshaking == cfg.target_arm /\ ~cfg.nop

(* The report `e` is what the handler emits: while it renders, the words  *)
(* it has handed to write are a prefix of e; when it halts they are e;    *)
(* and once a handshaking backend's channel is drained the host has seen  *)
(* e after everything main wrote before                                   *)
Emits(e) ==
    /\ IsPrefix(out, e)
    /\ Halting => out = e
    /\ (Halting /\ Handshaking /\ ~TXfull) => host = requested \o e

(* C4: for a literal text payload P and a location (F, L, C) the handler  *)
(* emits "panicked at '" P "', " F ":" decimal(L) ":" decimal(C) "\n" and *)
(* nothing else; for Oops at src/hello.rs:4:4 that is HelloReport         *)
C4_ReportWithLocation ==
    (InPanic /\ info.payload.kind = "str" /\ info.location.some)
       => /\ Emits(Quoted(info.payload.text) \o LocationSegment(info.location)
                     \o <<10>>)
          /\ (info.payload.text = Oops /\ info.location = HelloLocation
                /\ Halting) => out = HelloReport

C4_Witness ==
    /\ Direct
    /\ Halting
    /\ ~TXfull
    /\ info.payload = [kind |-> "str", text |-> Oops]
    /\ info.location = HelloLocation
    /\ host = HelloReport

(* What stands between the quotes *)
Shown(p) == IF p.kind = "str" THEN p.text ELSE DynAnyText

(* C5: without a location the handler emits "panicked at '" payload "'\n": *)
(* the newline follows the closing quote directly                         *)
C5_ReportWithoutLocation ==
    (InPanic /\ ~info.location.some)
       => /\ Emits(Quoted(Shown(info.payload)) \o <<10>>)
          /\ (info.payload = [kind |-> "str", text |-> Oops] /\ Halting)
                => out = OopsReport

C5_Witness ==
    /\ Direct
    /\ Halting
    /\ ~TXfull
    /\ ~info.location.some
    /\ info.payload = [kind |-> "str", text |-> Oops]
    /\ host = OopsReport

(* C6: for a payload that is not text the handler emits                   *)
(* "panicked at 'dyn Any'", then the location segment if there is a       *)
(* location, then a newline                                               *)
C6_ReportDynAny ==
    (InPanic /\ info.payload.kind = "other")
       => /\ Emits(Quoted(DynAnyText)
                     \o (IF info.location.some
                         THEN LocationSegment(info.location) ELSE <<>>)
                     \o <<10>>)
          /\ (~info.location.some /\ Halting) => out = DynAnyReport

C6_Witness ==
    /\ Direct
    /\ Halting
    /\ ~TXfull
    /\ info.payload.kind = "other"
    /\ info.location = HelloLocation
    /\ host = Quoted(DynAnyText) \o LocationSegment(HelloLocation) \o <<10>>

(* The words between the two quotes of a finished report *)
Between ==
    SubSeq(out, 14,
           Len(out) - 2 - (IF info.location.some
                           THEN Len(LocationSegment(info.location)) ELSE 0))

(* C7 as stated: a textual payload, whether a literal message or an owned *)
(* formatted one, is what stands between the quotes; dyn Any stands there *)
(* only for a payload that is not text                                    *)
C7_TextBetweenQuotes ==
    Halting =>
       /\ info.payload.kind \in {"str", "String"}
             => Between = info.payload.text
       /\ info.payload.kind = "other" => Between = DynAnyText

(* C7 amended: a literal message (&str) is what stands between the        *)
(* quotes; dyn Any stands there for every other payload, an owned         *)
(* formatted message (String) included                                    *)
C7_StrBetweenQuotes ==
    Halting =>
       /\ info.payload.kind = "str" => Between = info.payload.text
       /\ info.payload.kind # "str" => Between = DynAnyText

C7_Witness ==
    /\ Halting
    /\ info.payload = [kind |-> "String", text |-> Oops]
    /\ info.location.some
    /\ Between = DynAnyText
    /\ cfg.target_arm

(* C8: once the handler is in its final loop every step leaves it there,  *)
(* with the same call stack, and hands no further word to the channel     *)
C8_HaltingIsFinal ==
    [][Halting => /\ Halting'
                  /\ stack' = stack
                  /\ out' = out
                  /\ DTR' = DTR
                  /\ Len(pending') <= Len(pending)]_vars

C8_Witness ==
    /\ Halting
    /\ Direct
    /\ TXfull
    /\ DTR = 10
    /\ Len(host) = Len(out) - 1

(* C9: under the disabled backend every write returns and every write_all *)
(* returns, for every word and every slice, the empty one included, with  *)
(* nothing assumed of the host                                            *)
C9_NopReturns ==
    /\ (Disabled /\ Top = "write") ~> (Top # "write")
    /\ (Disabled /\ Top = "write_all") ~> (Top \in {"main", "panic"})

C9_Witness ==
    /\ Disabled
    /\ Returned
    /\ Len(requested) >= 2
    /\ host = <<>>

(* C10: under the direct strategy, if the host drains every word that     *)
(* occupies the channel, every write returns and every write_all returns  *)
C10_DirectReturns ==
    /\ (Direct /\ Top = "write") ~> (Top # "write")
    /\ (Direct /\ Top = "write_all") ~> (Top \in {"main", "panic"})

C10_Witness ==
    /\ Direct
    /\ Top = "write"
    /\ wpc = "mrc"
    /\ r # Uninit
    /\ TXfull
    /\ bytes # <<>>

(* C11: under the direct strategy, while the channel is occupied and the  *)
(* host does not drain it, a write stays where it is: every step that is  *)
(* not a drain leaves the call on the stack, the data register and the    *)
(* flag as they were, and enters no failure path                          *)
C11_BlockedWhileOccupied ==
    [][(Direct /\ Top = "write" /\ TXfull /\ host' = host)
          => /\ stack' = stack
             /\ wpc' = "mrc"
             /\ DTR' = DTR
             /\ pending' = pending
             /\ TXfull'
             /\ depth' = depth]_vars

C11_Witness ==
    /\ Direct
    /\ Top = "write"
    /\ TXfull
    /\ r = DSCR
    /\ wpc = "mrc"
    /\ host = <<>>
    /\ InPanic

(* A step in which the running write ends: it returns or it fails *)
WriteEnds == Top = "write" /\ stack' # stack

(* The one-word contract: write ends only by returning to its caller,     *)
(* having found the channel free and left its word in the data register   *)
(* with the flag set                                                      *)
WordAccepted ==
    /\ stack' = Pop(stack)
    /\ depth' = depth
    /\ ~TXfull
    /\ TXfull'
    /\ DTR' = word
    /\ pending' = <<word>>

(* C12 as stated: the disabled, the direct and the external strategy all  *)
(* keep the same one-word contract, so that one can stand for another:    *)
(* same blocking, same order, no failure                                  *)
C12_SameContract ==
    [][(cfg.target_arm /\ WriteEnds) => WordAccepted]_vars

(* C12 amended: the direct and the external strategy keep the same        *)
(* one-word contract; the disabled one is not substitutable for them, it  *)
(* returns at once and leaves the channel alone; none of the three fails  *)
C12_HandshakingSameContract ==
    [][/\ (Handshaking /\ WriteEnds) => WordAccepted
       /\ (Disabled /\ WriteEnds)
             => /\ stack' = Pop(stack)
                /\ depth' = depth
                /\ DSCR' = DSCR
                /\ DTR' = DTR]_vars

C12_Witness ==
    /\ cfg.target_arm
    /\ ~cfg.nop
    /\ ~cfg.inline_asm
    /\ Returned
    /\ TXfull
    /\ DTR = 200
    /\ host = <<65>>

(* C13: in every build configuration exactly one arm of write is in the   *)
(* build, it is the arm the device runs, and whenever the nop feature is  *)
(* enabled it is the no-operation arm, with inline-asm enabled or not     *)
C13_OneArmNopFirst ==
    /\ Cardinality(ActiveArms(cfg)) = 1
    /\ ActiveArms(cfg) = {Backend(cfg)}
    /\ cfg.nop => ActiveArms(cfg) = {"nop"}

(* C14: the sink is infallible: in every build configuration a step of    *)
(* write or of write_all (which is all Writer::write_str does) either     *)
(* goes on or returns to the caller; it never enters the failure path     *)
C14_NeverFails ==
    [][(Top \in {"write", "write_all"})
          => /\ depth' = depth
             /\ (stack' = stack \/ stack' = Pop(stack)
                   \/ stack' = Append(stack, "write"))]_vars

InWriteAll == \E k \in 1..Len(stack) : stack[k] = "write_all"

(* C15: the word write_all hands to write is the value of the byte, in    *)
(* 0..255 with nothing above bit 7, so a word that goes into the data     *)
(* register from write_all, write_str or the panic handler is below 256   *)
C15_ZeroExtended ==
    [][/\ (Top = "write_all" /\ stack' = Append(stack, "write"))
             => /\ word' = Head(bytes)
                /\ word' \in 0..255
                /\ word' \div 256 = 0
       /\ (InWriteAll /\ Len(pending') > Len(pending))
             => DTR' \in 0..255
       /\ \A k \in 1..Len(out') : out'[k] \in 0..255]_vars

C15_Witness ==
    /\ Direct
    /\ InWriteAll
    /\ Top = "write"
    /\ TXfull
    /\ DTR = 195
    /\ word = 169

(* C16: in every build configuration, once the panic handler runs, no     *)
(* step fails or enters the handler again: the handler is entered at most *)
(* once                                                                   *)
C16_NoReentry ==
    [][InPanic => /\ depth' = depth
                  /\ depth' <= 1]_vars

(* The whole report for a PanicInfo *)
Report(i) ==
    Quoted(Shown(i.payload))
        \o (IF i.location.some THEN LocationSegment(i.location) ELSE <<>>)
        \o <<10>>

(* The handler moves from one state of the design to the next one only *)
InOrder ==
    Phase' # Phase =>
        <<Phase, Phase'>> \in {<<"Running", "Capturing">>,
                               <<"Capturing", "Rendering">>,
                               <<"Rendering", "Halting">>}

(* When the handler halts, every word of the report has been handed to    *)
(* the backend, and a handshaking backend has written every one of them   *)
WrittenBeforeHalting ==
    Halting => /\ out = Report(info)
               /\ Handshaking => host \o pending = requested \o Report(info)

(* C17: the handler goes through Capturing, Rendering and Halting in that *)
(* order; with a host that drains every word it reaches Halting; and it   *)
(* has written every word of the report when it enters Halting            *)
C17_ReachesHalting ==
    /\ [][InOrder]_vars
    /\ (Phase = "Capturing") ~> Halting
    /\ []WrittenBeforeHalting

(* A write has seen the channel free and has not yet written its word *)
BetweenPollAndWrite ==
    \E k \in 1..Len(stack) : stack[k] = "write" /\ wpc = "mcr"

(* C18: the panic handler is never entered while a write is between       *)
(* seeing the channel free and writing the data register, and the words   *)
(* written to the channel are all of main's output followed by the words  *)
(* of the report, never a mixture                                         *)
C18_SingleWriter ==
    /\ [][depth' > depth => ~BetweenPollAndWrite]_vars
    /\ [](InPanic /\ Handshaking
            => /\ IsPrefix(host \o pending, requested \o out)
               /\ IsPrefix(requested, host \o pending))

C18_Witness ==
    /\ Direct
    /\ InPanic
    /\ Top = "write"
    /\ wpc = "mcr"
    /\ Len(requested) >= 2
    /\ Len(out) >= 2
    /\ host = requested \o <<112>>

(* C19: under the disabled backend no step reads the status register or   *)
(* writes the data register: the flag, the data register and what the     *)
(* host has observed stay as they were through every call                 *)
C19_NopLeavesChannel ==
    [][Disabled => /\ DSCR' = DSCR
                   /\ DTR' = DTR
                   /\ host' = host
                   /\ pending' = pending
                   /\ r' = Uninit]_vars

C19_Witness ==
    /\ Disabled
    /\ Halting
    /\ Len(requested) >= 1
    /\ Len(out) > 13
    /\ DSCR = 0
    /\ DTR = 0
    /\ host = <<>>

(* C20: at every moment of a write_all under the direct strategy the      *)
(* words the host has drained, followed by the word in flight if there is *)
(* one, are a prefix of the input, and exactly the bytes already taken    *)
(* from the slice and written: none is skipped, whether or not the host   *)
(* goes on draining                                                       *)
C20_PrefixOfInput ==
    (Direct /\ ~InPanic)
       => /\ IsPrefix(host \o pending, requested)
          /\ IsPrefix(host, requested)
          /\ Len(host) + Len(pending)
               = Len(requested) - Len(bytes) - (IF Top = "write" THEN 1 ELSE 0)

C20_Witness ==
    /\ Direct
    /\ ~InPanic
    /\ InWriteAll
    /\ Top = "write"
    /\ wpc = "mrc"
    /\ r = DSCR
    /\ host = <<>>
    /\ pending = <<65>>
    /\ word = 200
====
